---------------------------- MODULE Spec2Model ----------------------------
(***************************************************************************)
(* A model of package cait's view code (caltechlibrary/aspace):             *)
(*   - MakeAccessionTitleIndex: the walk over the record tree, the sort of  *)
(*     the composite "Title|URI" keys and the prev/next linking loop;       *)
(*   - Accession.NormalizeView and DigitalObject.NormalizeView;             *)
(*   - NavElementView.String;                                               *)
(*   - the loaders MakeSubjectList, MakeSubjectMap, MakeDigitalObjectMap.   *)
(* Titles and URIs of the title index are Go strings, modelled as sequences *)
(* of byte values so that sort.Strings and strings.LastIndex work on bytes  *)
(* as they do in Go.                                                        *)
(***************************************************************************)
EXTENDS Integers, Sequences, FiniteSets, TLC

VARIABLES
    pc,             \* the position of the running call
    files,          \* the files under the root visited so far, in walk order
    titleIndex,     \* MakeAccessionTitleIndex: map URI -> NavElementView
    titlesWithURI,  \* MakeAccessionTitleIndex: the slice of composite keys
    i,              \* MakeAccessionTitleIndex: index of the linking loop
    ret,            \* what MakeAccessionTitleIndex returned
    acc,            \* Accession.NormalizeView: the receiver a
    subjects,       \* Accession.NormalizeView: map URI -> Subject
    digitalObjects, \* Accession.NormalizeView: map URI -> DigitalObject
    view,           \* the view the last Accession.NormalizeView returned
    verr,           \* the error the last Accession.NormalizeView returned
    prev,           \* the subject list returned before a subject was removed
    removed,        \* the URI of the subject removed from the map, "" for none
    dobj,           \* DigitalObject.NormalizeView: the receiver o
    doView,         \* what DigitalObject.NormalizeView returned
    nav,            \* NavElementView.String: the receiver
    rendered,       \* what NavElementView.String returned
    loader,         \* the loader called: MakeSubjectList, MakeSubjectMap, ...
    dirOK,          \* a loader's directory: whether ioutil.ReadDir can read it
    entries,        \* a loader's directory: its entries, in ReadDir's order
    at,             \* a loader's loop: the index of the next entry
    loaded,         \* a loader's slice or map of the records read so far
    lret            \* what the loader returned

idxVars == <<files, titleIndex, titlesWithURI, i, ret>>

normVars == <<acc, subjects, digitalObjects, view, verr, prev, removed>>

doVars == <<dobj, doView>>

navVars == <<nav, rendered>>

loadVars == <<loader, dirOK, entries, at, loaded, lret>>

vars == <<pc, idxVars, normVars, doVars, navVars, loadVars>>

----------------------------------------------------------------------------
(* Bounds and input sets *)

\* The largest number of files under the walked root.
MaxFiles == 3

\* The separator byte '|' of the composite key and of extractURI.
Pipe == 124

\* Titles as byte strings: "", "A", "AB", "A|", "B".  They hold the empty
\* title, a proper prefix pair and a title with the separator byte in it.
Titles == {<<>>, <<65>>, <<65, 66>>, <<65, 124>>, <<66>>}

\* URIs as byte strings: "/1", "/2", ...  A record is identified by its URI,
\* so the files under one root carry pairwise distinct URIs, and no URI
\* holds the separator byte.
URIs == {<<47, 48 + n>> : n \in 1..MaxFiles}

\* A well-formed accession record in a readable .json file.
RecordFiles ==
    [json : {TRUE}, readable : {TRUE}, syntaxOK : {TRUE}, badField : {"none"},
     title : Titles, uri : URIs, jsonmodel_type : {"accession"}]

Oddities(f) ==
    (IF f.json THEN 0 ELSE 1) + (IF f.readable THEN 0 ELSE 1)
    + (IF f.syntaxOK THEN 0 ELSE 1) + (IF f.badField = "none" THEN 0 ELSE 1)
    + (IF f.jsonmodel_type = "accession" THEN 0 ELSE 1)

\* The other files a root may hold, each off in one way: a name without the
\* .json suffix, an unreadable file, a file that is not JSON, a file whose
\* "title" or "jsonmodel_type" is not a JSON string (badField), a record
\* of another kind.
OddFiles ==
    {f \in [json : BOOLEAN, readable : BOOLEAN, syntaxOK : BOOLEAN,
            badField : {"none", "title", "jsonmodel_type"},
            title : {<<65>>}, uri : URIs,
            jsonmodel_type : {"accession", "subject"}] : Oddities(f) = 1}

FileSet == RecordFiles \cup OddFiles

----------------------------------------------------------------------------
(* Go strings as byte sequences *)

\* Go's s < t on strings: byte-wise lexicographic order.
StrLess(s, t) ==
    \E k \in 0..Len(t) - 1 :
        /\ k <= Len(s)
        /\ \A j \in 1..k : s[j] = t[j]
        /\ (k = Len(s) \/ s[k + 1] < t[k + 1])

\* strings.LastIndex(s, "|"): 0-based index of the last separator, or -1.
LastIndex(s) ==
    IF \E j \in 1..Len(s) : s[j] = Pipe
    THEN (CHOOSE j \in 1..Len(s) :
              s[j] = Pipe /\ \A k \in (j + 1)..Len(s) : s[k] # Pipe) - 1
    ELSE -1

\* extractURI: s[pos:] with pos one past the last separator.
extractURI(s) == SubSeq(s, LastIndex(s) + 2, Len(s))

\* fmt.Sprintf("%s|%s", accession.Title, accession.URI)
CompositeKey(title, uri) == title \o <<Pipe>> \o uri

RECURSIVE Insert(_, _)
Insert(s, x) ==
    IF s = <<>> THEN <<x>>
    ELSE IF StrLess(x, Head(s)) THEN <<x>> \o s
    ELSE <<Head(s)>> \o Insert(Tail(s), x)

RECURSIVE InsertionSort(_)
InsertionSort(s) ==
    IF s = <<>> THEN <<>> ELSE Insert(InsertionSort(Tail(s)), Head(s))

\* A faulty SortStrings: the first key stays where the walk put it.
SortStringsButFirst(s) ==
    IF s = <<>> THEN s ELSE <<Head(s)>> \o InsertionSort(Tail(s))

\* A faulty SortStrings: the slice is left as the walk built it.
SortStringsNone(s) == s

\* sort.Strings: the slice in increasing byte-wise order.
SortStrings(s) == InsertionSort(s)

----------------------------------------------------------------------------
(* MakeAccessionTitleIndex *)

\* strings.HasSuffix(p, ".json")
HasSuffixJSON(f) == f.json

\* json.Unmarshal into the {Title, URI, JSONModel} projection.  Input that
\* is not JSON leaves the struct zero; a field that is not a JSON string is
\* skipped and reported, and the other fields are still decoded.
Unmarshal(f) ==
    IF ~f.syntaxOK
    THEN [Title |-> <<>>, URI |-> <<>>, JSONModel |-> "", err |-> TRUE]
    ELSE [Title |-> IF f.badField = "title" THEN <<>> ELSE f.title,
          URI |-> f.uri,
          JSONModel |-> IF f.badField = "jsonmodel_type" THEN ""
                        ELSE f.jsonmodel_type,
          err |-> f.badField # "none"]

\* new(NavElementView) with ThisLabel and ThisURI set.
NewNav(title, uri) ==
    [ThisLabel |-> title, ThisURI |-> uri, PrevURI |-> <<>>,
     PrevLabel |-> <<>>, NextURI |-> <<>>, NextLabel |-> <<>>, Weight |-> 0]

\* m[k] = v on a Go map.
MapSet(m, k, v) ==
    [x \in (DOMAIN m) \cup {k} |-> IF x = k THEN v ELSE m[x]]

EmptyMap == [x \in {} |-> x]

\* A faulty IsAccession: every record kind but "subject" is kept.
IsAccessionNotSubject(a) == a.JSONModel # "subject"

\* accession.JSONModel == "accession"
IsAccession(a) == a.JSONModel = "accession"

\* The walk function on one file: the title index and the key slice after it.
WalkFunc(f, ti, tw) ==
    IF HasSuffixJSON(f)
    THEN IF ~f.readable
         THEN [titleIndex |-> ti, titlesWithURI |-> tw]
         ELSE LET accession == Unmarshal(f) IN
              IF IsAccession(accession)
              THEN [titleIndex |->
                        MapSet(ti, accession.URI,
                               NewNav(accession.Title, accession.URI)),
                    titlesWithURI |->
                        Append(tw, CompositeKey(accession.Title, accession.URI))]
              ELSE [titleIndex |-> ti, titlesWithURI |-> tw]
    ELSE [titleIndex |-> ti, titlesWithURI |-> tw]

\* filepath.Walk calls the walk function on the next file under the root.
Visit(f) ==
    /\ pc = "walk"
    /\ Len(files) < MaxFiles
    /\ \A k \in 1..Len(files) : files[k].uri # f.uri
    /\ files' = Append(files, f)
    /\ LET r == WalkFunc(f, titleIndex, titlesWithURI) IN
           /\ titleIndex' = r.titleIndex
           /\ titlesWithURI' = r.titlesWithURI
    /\ UNCHANGED <<pc, i, ret>>
    /\ UNCHANGED <<normVars, doVars, navVars, loadVars>>

\* A faulty EmptyError: the two emptiness checks are missing.
EmptyErrorNone(tw, ti) == ""

\* The two checks after the walk: the error returned, "" for none.
EmptyError(tw, ti) ==
    IF Len(tw) = 0 THEN "No titles found"
    ELSE IF Cardinality(DOMAIN ti) = 0 THEN "title index empty"
    ELSE ""

\* The walk is over and nothing was found: return nil and the error.
ReturnEmpty ==
    /\ pc = "walk"
    /\ EmptyError(titlesWithURI, titleIndex) # ""
    /\ pc' = "done"
    /\ ret' = [isNil |-> TRUE, index |-> EmptyMap,
               err |-> EmptyError(titlesWithURI, titleIndex)]
    /\ UNCHANGED <<files, titleIndex, titlesWithURI, i>>
    /\ UNCHANGED <<normVars, doVars, navVars, loadVars>>

\* The walk is over: sort.Strings(titlesWithURI), and the loop starts.
SortTitles ==
    /\ pc = "walk"
    /\ EmptyError(titlesWithURI, titleIndex) = ""
    /\ titlesWithURI' = SortStrings(titlesWithURI)
    /\ i' = 0
    /\ pc' = "link"
    /\ UNCHANGED <<files, titleIndex, ret>>
    /\ UNCHANGED <<normVars, doVars, navVars, loadVars>>

\* A faulty HasNext: the loop stops linking one entry early.
HasNextShort(n, lastI) == n < lastI - 1

\* i < lastI
HasNext(n, lastI) == n < lastI

\* A faulty LinkEntry: the next link carries the entry's own label.
LinkEntryOwnLabel(ti, tw, n) ==
    LET lastI == Len(tw) - 1
        uri == extractURI(tw[n + 1])
    IN  IF uri \in DOMAIN ti
        THEN LET prevURI == IF n > 0 THEN extractURI(tw[n]) ELSE <<>>
                 t1 == IF n > 0 /\ prevURI \in DOMAIN ti
                       THEN [ti EXCEPT ![uri].PrevLabel = ti[prevURI].ThisLabel,
                                       ![uri].PrevURI = ti[prevURI].ThisURI]
                       ELSE ti
                 nextURI == IF HasNext(n, lastI) THEN extractURI(tw[n + 2])
                            ELSE <<>>
             IN  IF HasNext(n, lastI) /\ nextURI \in DOMAIN t1
                 THEN [t1 EXCEPT ![uri].NextLabel = t1[uri].ThisLabel,
                                 ![uri].NextURI = t1[nextURI].ThisURI]
                 ELSE t1
        ELSE ti

\* One iteration of the linking loop, at 0-based index n of the sorted keys.
LinkEntry(ti, tw, n) ==
    LET lastI == Len(tw) - 1
        uri == extractURI(tw[n + 1])
    IN  IF uri \in DOMAIN ti
        THEN LET prevURI == IF n > 0 THEN extractURI(tw[n]) ELSE <<>>
                 t1 == IF n > 0 /\ prevURI \in DOMAIN ti
                       THEN [ti EXCEPT ![uri].PrevLabel = ti[prevURI].ThisLabel,
                                       ![uri].PrevURI = ti[prevURI].ThisURI]
                       ELSE ti
                 nextURI == IF HasNext(n, lastI) THEN extractURI(tw[n + 2])
                            ELSE <<>>
             IN  IF HasNext(n, lastI) /\ nextURI \in DOMAIN t1
                 THEN [t1 EXCEPT ![uri].NextLabel = t1[nextURI].ThisLabel,
                                 ![uri].NextURI = t1[nextURI].ThisURI]
                 ELSE t1
        ELSE ti

\* for i, val := range titlesWithURI { ... }
Link ==
    /\ pc = "link"
    /\ i < Len(titlesWithURI)
    /\ titleIndex' = LinkEntry(titleIndex, titlesWithURI, i)
    /\ i' = i + 1
    /\ UNCHANGED <<pc, files, titlesWithURI, ret>>
    /\ UNCHANGED <<normVars, doVars, navVars, loadVars>>

\* return titleIndex, nil
Return ==
    /\ pc = "link"
    /\ i >= Len(titlesWithURI)
    /\ pc' = "done"
    /\ ret' = [isNil |-> FALSE, index |-> titleIndex, err |-> ""]
    /\ UNCHANGED <<files, titleIndex, titlesWithURI, i>>
    /\ UNCHANGED <<normVars, doVars, navVars, loadVars>>

----------------------------------------------------------------------------
(* DigitalObject.NormalizeView *)

\* The largest number of file versions of a digital object.
MaxFileVersions == 3

\* The largest number of entries of an accession's Subjects and Instances.
MaxRefs == 2

SeqsUpTo(S, n) == UNION {[1..k -> S] : k \in 0..n}

FileURIValues == {"", "a.pdf", "b.tif"}

DigitalObjectInputs ==
    [URI : {"/do/1"}, Title : {"", "Photo"}, Publish : BOOLEAN,
     FileVersions : SeqsUpTo([FileURI : FileURIValues], MaxFileVersions)]

\* A faulty KeepFileURI: the emptiness test is missing.
KeepFileURIAny(fv) == TRUE

\* fv.FileURI != ""
KeepFileURI(fv) == fv.FileURI # ""

\* for _, fv := range o.FileVersions { ... append ... }
RECURSIVE AppendFileURIs(_, _)
AppendFileURIs(fvs, out) ==
    IF fvs = <<>> THEN out
    ELSE AppendFileURIs(Tail(fvs),
                        IF KeepFileURI(Head(fvs))
                        THEN Append(out, Head(fvs).FileURI)
                        ELSE out)

DigitalObjectNormalizeView(o) ==
    [URI |-> o.URI, Title |-> o.Title, Publish |-> o.Publish,
     FileURIs |-> AppendFileURIs(o.FileVersions, <<>>)]

NoDigitalObject ==
    [URI |-> "", Title |-> "", Publish |-> FALSE, FileVersions |-> <<>>]

NoDigitalObjectView ==
    [URI |-> "", Title |-> "", Publish |-> FALSE, FileURIs |-> <<>>]

----------------------------------------------------------------------------
(* Accession.NormalizeView *)

SubjectURIs == {"/subjects/1", "/subjects/2"}

SubjectAt(u) ==
    [URI |-> u, Title |-> IF u = "/subjects/1" THEN "Physics" ELSE "Chemistry"]

\* The subjects maps a caller may pass: any part of the subject collection.
SubjectMaps == {[u \in K |-> SubjectAt(u)] : K \in SUBSET SubjectURIs}

\* An entry of a.Subjects (map[string]interface{}): no "ref" key, a "ref"
\* that is a string, or a "ref" that is a JSON number.
SubjectItems ==
    {[hasRef |-> FALSE, kind |-> "string", s |-> ""],
     [hasRef |-> TRUE, kind |-> "number", s |-> "5"]}
    \cup {[hasRef |-> TRUE, kind |-> "string", s |-> u] : u \in SubjectURIs}

DigitalObjectURIs == {"/do/1", "/do/2"}

DigitalObjectAt(u) ==
    IF u = "/do/1"
    THEN [URI |-> u, Title |-> "Photo", Publish |-> TRUE,
          FileVersions |-> <<[FileURI |-> "a.pdf"], [FileURI |-> ""],
                             [FileURI |-> "b.tif"]>>]
    ELSE [URI |-> u, Title |-> "Letter", Publish |-> FALSE,
          FileVersions |-> <<>>]

DigitalObjectMaps ==
    {[u \in K |-> DigitalObjectAt(u)] : K \in SUBSET DigitalObjectURIs}

\* An entry of a.Instances: no "digital_object" key, a digital_object
\* without "ref", with a string "ref", or with a "ref" that is a number.
InstanceItems ==
    {[hasDO |-> FALSE, hasRef |-> FALSE, kind |-> "string", s |-> ""],
     [hasDO |-> TRUE, hasRef |-> FALSE, kind |-> "string", s |-> ""],
     [hasDO |-> TRUE, hasRef |-> TRUE, kind |-> "number", s |-> "5"]}
    \cup {[hasDO |-> TRUE, hasRef |-> TRUE, kind |-> "string", s |-> u] :
              u \in DigitalObjectURIs}

AccessionInputs ==
    [URI : {"/accessions/1"}, Title : {"Papers"},
     Subjects : SeqsUpTo(SubjectItems, MaxRefs),
     Instances : SeqsUpTo(InstanceItems, MaxRefs)]

\* json.Marshal(m) then json.Unmarshal(src, &kv) into map[string]string: a
\* string "ref" is kept, a "ref" that is no string is stored as "".
ReencodeKV(item) ==
    [ok |-> item.hasRef,
     ref |-> IF item.hasRef /\ item.kind = "string" THEN item.s ELSE ""]

\* for _, item := range a.Instances { ... }
RECURSIVE LoopInstances(_, _, _)
LoopInstances(items, dos, out) ==
    IF items = <<>> THEN out
    ELSE LET item == Head(items)
             kv == ReencodeKV(item)
         IN  LoopInstances(Tail(items), dos,
                 IF item.hasDO /\ kv.ok /\ kv.ref \in DOMAIN dos
                 THEN Append(out, DigitalObjectNormalizeView(dos[kv.ref]))
                 ELSE out)

\* fmt.Sprintf("%s", ref): a string as it is, a number as a bad-verb text.
FmtS(item) == IF item.kind = "string" THEN item.s ELSE "%!s(float64=5)"

\* A faulty AppendTitle: a title already in the list is not added.
AppendTitleOnce(out, title) ==
    IF \E k \in 1..Len(out) : out[k] = title THEN out ELSE Append(out, title)

\* v.Subjects = append(v.Subjects, rec.Title)
AppendTitle(out, title) == Append(out, title)

\* A faulty SubjectsToLoop: the first entry is not looked at.
SubjectsToLoopTail(a) == IF a.Subjects = <<>> THEN <<>> ELSE Tail(a.Subjects)

\* range a.Subjects
SubjectsToLoop(a) == a.Subjects

\* for _, item := range a.Subjects { ... }
RECURSIVE LoopSubjects(_, _, _)
LoopSubjects(items, subs, out) ==
    IF items = <<>> THEN out
    ELSE LET item == Head(items) IN
         LoopSubjects(Tail(items), subs,
             IF item.hasRef /\ FmtS(item) \in DOMAIN subs
             THEN AppendTitle(out, subs[FmtS(item)].Title)
             ELSE out)

AccessionNormalizeView(a, subs, dos) ==
    [view |-> [URI |-> a.URI, Title |-> a.Title,
               DigitalObjects |-> LoopInstances(a.Instances, dos, <<>>),
               Subjects |-> LoopSubjects(SubjectsToLoop(a), subs, <<>>)],
     err |-> "nil"]

NoAccession ==
    [URI |-> "", Title |-> "", Subjects |-> <<>>, Instances |-> <<>>]

NoView ==
    [URI |-> "", Title |-> "", DigitalObjects |-> <<>>, Subjects |-> <<>>]

----------------------------------------------------------------------------
(* NavElementView.String *)

\* A Go string here is a sequence of pieces: a space, or one of the three
\* markup fragments, which start with '<' and end with '>'.
Space == [tag |-> " ", uri |-> "", label |-> ""]

NavInputs ==
    [ThisLabel : {"", "A b"}, ThisURI : {"", "/2"},
     PrevURI : {"", "/1"}, PrevLabel : {"", "A a"},
     NextURI : {"", "/3"}, NextLabel : {"", "A c"}, Weight : {0}]

\* fmt.Sprintf of one fragment's markup.
Fragment(tag, uri, label) == <<[tag |-> tag, uri |-> uri, label |-> label]>>

\* fmt.Sprintf("%s %s %s", prev, this, next)
Sprintf3(a, b, c) == a \o <<Space>> \o b \o <<Space>> \o c

RECURSIVE TrimLeft(_)
TrimLeft(s) ==
    IF s # <<>> /\ Head(s) = Space THEN TrimLeft(Tail(s)) ELSE s

RECURSIVE TrimRight(_)
TrimRight(s) ==
    IF s # <<>> /\ s[Len(s)] = Space
    THEN TrimRight(SubSeq(s, 1, Len(s) - 1)) ELSE s

\* strings.Trim(s, " ")
Trim(s) == TrimRight(TrimLeft(s))

NavString(n) ==
    LET prevS == IF n.PrevURI # ""
                 THEN Fragment("prev-item", n.PrevURI, n.PrevLabel) ELSE <<>>
        thisS == IF n.ThisURI # ""
                 THEN Fragment("this-item", n.ThisURI, n.ThisLabel) ELSE <<>>
        nextS == IF n.NextURI # ""
                 THEN Fragment("next-item", n.NextURI, n.NextLabel) ELSE <<>>
    IN  Trim(Sprintf3(prevS, thisS, nextS))

NoNav ==
    [ThisLabel |-> "", ThisURI |-> "", PrevURI |-> "", PrevLabel |-> "",
     NextURI |-> "", NextLabel |-> "", Weight |-> 0]

----------------------------------------------------------------------------
(* MakeSubjectList, MakeSubjectMap, MakeDigitalObjectMap *)

\* The largest number of entries of a loader's directory.
MaxEntries == 3

Loaders == {"MakeSubjectList", "MakeSubjectMap", "MakeDigitalObjectMap"}

\* An entry of the directory: one that ioutil.ReadFile cannot read (a
\* subdirectory, say, with parses left TRUE), one that is read and does not
\* parse, or one that is read and holds a record.  The URIs of a directory
\* are pairwise distinct.
EntryNames == <<"/r/1", "/r/2", "/r/3", "/r/4", "/r/5", "/r/6">>

EntryURIs == {EntryNames[k] : k \in 1..MaxEntries}

EntrySet ==
    {e \in [readable : BOOLEAN, parses : BOOLEAN, uri : EntryURIs,
            title : {"Physics"}] : e.readable \/ e.parses}

\* The directories of at most MaxEntries entries, no URI twice.
Directories ==
    {d \in SeqsUpTo(EntrySet, MaxEntries) :
        \A j, k \in 1..Len(d) : j # k => d[j].uri # d[k].uri}

\* json.Unmarshal(src, &subject): the record decoded, and whether it failed.
UnmarshalRecord(e) ==
    IF e.parses
    THEN [rec |-> [URI |-> e.uri, Title |-> e.title], err |-> FALSE]
    ELSE [rec |-> [URI |-> "", Title |-> ""], err |-> TRUE]

\* A faulty ParseFailed: the error of json.Unmarshal is not looked at.
ParseFailedNever(r) == FALSE

\* err != nil after json.Unmarshal
ParseFailed(r) == r.err

\* make(map...) for the map loaders, a nil slice for MakeSubjectList.
NoneLoaded(l) == IF l = "MakeSubjectList" THEN <<>> ELSE EmptyMap

\* subjects = append(subjects, subject), or subjects[subject.URI] = subject
Store(l, acc0, rec) ==
    IF l = "MakeSubjectList" THEN Append(acc0, rec)
    ELSE MapSet(acc0, rec.URI, rec)

\* return nil, fmt.Errorf(...)
LoadFailed(msg) == [isNil |-> TRUE, value |-> <<>>, err |-> msg]

\* dir, err := ioutil.ReadDir(dname), and the return when it fails.
ReadDir ==
    /\ pc = "readdir"
    /\ IF dirOK
       THEN /\ pc' = "range"
            /\ UNCHANGED lret
       ELSE /\ pc' = "done"
            /\ lret' = LoadFailed("Can't read directory")
    /\ UNCHANGED <<loader, dirOK, entries, at, loaded>>
    /\ UNCHANGED <<idxVars, normVars, doVars, navVars>>

\* One iteration of for _, finfo := range dir { ... }.
LoadEntry ==
    /\ pc = "range"
    /\ at <= Len(entries)
    /\ LET e == entries[at]
           r == UnmarshalRecord(e)
       IN  IF ~e.readable
           THEN /\ pc' = "done"
                /\ lret' = LoadFailed("Can't read")
                /\ UNCHANGED <<at, loaded>>
           ELSE IF ParseFailed(r)
           THEN /\ pc' = "done"
                /\ lret' = LoadFailed("Can't parse")
                /\ UNCHANGED <<at, loaded>>
           ELSE /\ loaded' = Store(loader, loaded, r.rec)
                /\ at' = at + 1
                /\ UNCHANGED <<pc, lret>>
    /\ UNCHANGED <<loader, dirOK, entries>>
    /\ UNCHANGED <<idxVars, normVars, doVars, navVars>>

\* return subjects, nil
ReturnLoaded ==
    /\ pc = "range"
    /\ at > Len(entries)
    /\ pc' = "done"
    /\ lret' = [isNil |-> loader = "MakeSubjectList" /\ loaded = <<>>,
                value |-> loaded, err |-> ""]
    /\ UNCHANGED <<loader, dirOK, entries, at, loaded>>
    /\ UNCHANGED <<idxVars, normVars, doVars, navVars>>

----------------------------------------------------------------------------
(* The specifications *)

IdleIndex ==
    /\ files = <<>>
    /\ titleIndex = EmptyMap
    /\ titlesWithURI = <<>>
    /\ i = 0
    /\ ret = [isNil |-> TRUE, index |-> EmptyMap, err |-> ""]

IdleNormalize ==
    /\ acc = NoAccession
    /\ subjects = EmptyMap
    /\ digitalObjects = EmptyMap
    /\ view = NoView
    /\ verr = ""
    /\ prev = <<>>
    /\ removed = ""

IdleDigitalObject == dobj = NoDigitalObject /\ doView = NoDigitalObjectView

IdleNav == nav = NoNav /\ rendered = <<>>

IdleLoad ==
    /\ loader = ""
    /\ dirOK = TRUE
    /\ entries = <<>>
    /\ at = 1
    /\ loaded = <<>>
    /\ lret = [isNil |-> TRUE, value |-> <<>>, err |-> ""]

\* A call of MakeAccessionTitleIndex on a root of at most MaxFiles files.
Init ==
    /\ pc = "walk"
    /\ IdleIndex
    /\ IdleLoad
    /\ IdleNormalize
    /\ IdleDigitalObject
    /\ IdleNav

Next ==
    \/ \E f \in FileSet : Visit(f)
    \/ ReturnEmpty
    \/ SortTitles
    \/ Link
    \/ Return

Spec == Init /\ [][Next]_vars

\* a.NormalizeView(subjects, digitalObjects)
NormalizeAccession ==
    /\ pc = "ready"
    /\ LET r == AccessionNormalizeView(acc, subjects, digitalObjects) IN
           /\ view' = r.view
           /\ verr' = r.err
    /\ pc' = "viewed"
    /\ UNCHANGED <<acc, subjects, digitalObjects, prev, removed>>
    /\ UNCHANGED <<idxVars, doVars, navVars, loadVars>>

\* The caller takes one subject the accession references out of the map,
\* keeping the list the call before returned, and is ready to call again.
RemoveSubject(u) ==
    /\ pc = "viewed"
    /\ removed = ""
    /\ u \in DOMAIN subjects
    /\ \E k \in 1..Len(acc.Subjects) :
           acc.Subjects[k].hasRef /\ FmtS(acc.Subjects[k]) = u
    /\ subjects' = [x \in (DOMAIN subjects) \ {u} |-> subjects[x]]
    /\ removed' = u
    /\ prev' = view.Subjects
    /\ pc' = "ready"
    /\ UNCHANGED <<acc, digitalObjects, view, verr>>
    /\ UNCHANGED <<idxVars, doVars, navVars, loadVars>>

\* Calls of Accession.NormalizeView on every accession and pair of maps.
InitNormalize ==
    /\ pc = "ready"
    /\ acc \in AccessionInputs
    /\ subjects \in SubjectMaps
    /\ digitalObjects \in DigitalObjectMaps
    /\ view = NoView
    /\ verr = ""
    /\ prev = <<>>
    /\ removed = ""
    /\ IdleIndex
    /\ IdleLoad
    /\ IdleDigitalObject
    /\ IdleNav

NextNormalize ==
    \/ NormalizeAccession
    \/ \E u \in SubjectURIs : RemoveSubject(u)

SpecNormalize == InitNormalize /\ [][NextNormalize]_vars

\* o.NormalizeView()
NormalizeDigitalObject ==
    /\ pc = "ready"
    /\ doView' = DigitalObjectNormalizeView(dobj)
    /\ pc' = "viewed"
    /\ UNCHANGED <<dobj, idxVars, normVars, navVars, loadVars>>

InitDigitalObject ==
    /\ pc = "ready"
    /\ dobj \in DigitalObjectInputs
    /\ doView = NoDigitalObjectView
    /\ IdleIndex
    /\ IdleLoad
    /\ IdleNormalize
    /\ IdleNav

NextDigitalObject == NormalizeDigitalObject

SpecDigitalObject == InitDigitalObject /\ [][NextDigitalObject]_vars

\* nav.String()
RenderNav ==
    /\ pc = "ready"
    /\ rendered' = NavString(nav)
    /\ pc' = "rendered"
    /\ UNCHANGED <<nav, idxVars, normVars, doVars, loadVars>>

InitNav ==
    /\ pc = "ready"
    /\ nav \in NavInputs
    /\ rendered = <<>>
    /\ IdleIndex
    /\ IdleLoad
    /\ IdleNormalize
    /\ IdleDigitalObject

NextNav == RenderNav

SpecNav == InitNav /\ [][NextNav]_vars

\* A call of one of the three loaders on a directory.
InitLoad ==
    /\ pc = "readdir"
    /\ loader \in Loaders
    /\ dirOK \in BOOLEAN
    /\ entries \in Directories
    /\ at = 1
    /\ loaded = NoneLoaded(loader)
    /\ lret = [isNil |-> TRUE, value |-> <<>>, err |-> ""]
    /\ IdleIndex
    /\ IdleNormalize
    /\ IdleDigitalObject
    /\ IdleNav

NextLoad ==
    \/ ReadDir
    \/ LoadEntry
    \/ ReturnLoaded

SpecLoad == InitLoad /\ [][NextLoad]_vars

----------------------------------------------------------------------------
(* What the claims about the title index read *)

\* MakeAccessionTitleIndex has returned a map and no error.
Returned == pc = "done" /\ ~ret.isNil

\* The files visited that hold an accession record: a readable .json file of
\* JSON whose "jsonmodel_type" is the string "accession".
AccessionFiles ==
    {files[k] : k \in {j \in 1..Len(files) :
        /\ files[j].json /\ files[j].readable /\ files[j].syntaxOK
        /\ files[j].badField # "jsonmodel_type"
        /\ files[j].jsonmodel_type = "accession"}}

\* The visited .json files that cannot be read or do not parse.
FailedFiles ==
    {files[k] : k \in {j \in 1..Len(files) :
        /\ files[j].json
        /\ (~files[j].readable \/ ~files[j].syntaxOK
            \/ files[j].badField # "none")}}

\* The sorted order of the spec: entries by their "Title|URI" key.
KeyOf(e) == e.ThisLabel \o <<Pipe>> \o e.ThisURI

\* The keys of the entries that come after u in the sorted order.
After(m, u) == {w \in DOMAIN m : StrLess(KeyOf(m[u]), KeyOf(m[w]))}

\* v is the first of the entries in S in the sorted order.
FirstOf(m, S, v) ==
    v \in S /\ \A w \in S \ {v} : StrLess(KeyOf(m[v]), KeyOf(m[w]))

\* The entry reached from u by following NextURI k times (<<>> past the end).
RECURSIVE NthNext(_, _, _)
NthNext(m, u, k) ==
    IF k = 0 THEN u
    ELSE LET p == NthNext(m, u, k - 1) IN
         IF p \in DOMAIN m THEN m[p].NextURI ELSE <<>>

\* u comes earlier than v in the prev/next chain.
ChainBefore(m, u, v) ==
    \E k \in 1..Cardinality(DOMAIN m) : NthNext(m, u, k) = v

\* C1: in the returned map, entries adjacent in the sorted order link to each
\* other (the earlier's NextURI is the later's ThisURI, the later's PrevURI
\* the earlier's ThisURI); the first entry has an empty PrevURI and the last
\* an empty NextURI.
C1_AdjacentLinks ==
    Returned =>
        LET m == ret.index IN
        /\ \A u \in DOMAIN m :
               LET after == After(m, u) IN
               IF after = {}
               THEN m[u].NextURI = <<>>
               ELSE /\ FirstOf(m, after, m[u].NextURI)
                    /\ m[m[u].NextURI].PrevURI = m[u].ThisURI
        /\ \A u \in DOMAIN m :
               FirstOf(m, DOMAIN m, u) => m[u].PrevURI = <<>>

\* C1's case: a returned index of three records, the middle one linked both
\* ways.
C1_Witness ==
    /\ Returned
    /\ Cardinality(DOMAIN ret.index) = 3
    /\ \E u \in DOMAIN ret.index :
           ret.index[u].PrevURI # <<>> /\ ret.index[u].NextURI # <<>>

\* C2: the chain follows the byte-wise order of the titles: of two indexed
\* accessions with different titles, the one with the byte-wise smaller
\* title comes earlier in the chain.
C2_ChainByTitle ==
    Returned =>
        LET m == ret.index IN
        \A u, v \in DOMAIN m :
            StrLess(m[u].ThisLabel, m[v].ThisLabel) => ChainBefore(m, u, v)

\* C3: accessions with identical titles are chained by URI ascending.
C3_TiesByURI ==
    Returned =>
        LET m == ret.index IN
        \A u, v \in DOMAIN m :
            (m[u].ThisLabel = m[v].ThisLabel /\ StrLess(u, v)) =>
                ChainBefore(m, u, v)

\* C3's case: titles "A", "A", "B" with URIs /2, /1, /3, visited in that
\* order, are chained (A,/1), (A,/2), (B,/3).
C3_Witness ==
    /\ Returned
    /\ Len(files) = 3
    /\ files[1].title = <<65>> /\ files[1].uri = <<47, 50>>
    /\ files[2].title = <<65>> /\ files[2].uri = <<47, 49>>
    /\ files[3].title = <<66>> /\ files[3].uri = <<47, 51>>
    /\ DOMAIN ret.index = {<<47, 49>>, <<47, 50>>, <<47, 51>>}
    /\ ret.index[<<47, 49>>].NextURI = <<47, 50>>
    /\ ret.index[<<47, 50>>].NextURI = <<47, 51>>
    /\ ret.index[<<47, 51>>].NextURI = <<>>

\* C4: the keys of the returned map are exactly the URIs of the accession
\* records under the root; a file that holds none (another or no
\* jsonmodel_type, no .json suffix) is no key and no prev/next neighbour;
\* every entry's ThisURI is the key it is stored under.
C4_KeysAreAccessions ==
    Returned =>
        LET m == ret.index IN
        /\ DOMAIN m = {f.uri : f \in AccessionFiles}
        /\ \A u \in DOMAIN m : m[u].ThisURI = u
        /\ \A k \in 1..Len(files) :
               files[k] \notin AccessionFiles =>
                   /\ files[k].uri \notin DOMAIN m
                   /\ \A u \in DOMAIN m :
                          /\ m[u].PrevURI # files[k].uri
                          /\ m[u].NextURI # files[k].uri

\* C4's case: a returned index over a root that holds an accession next to
\* a subject record and a record without a jsonmodel_type string.
C4_Witness ==
    /\ Returned
    /\ \E k \in 1..Len(files) :
           files[k].json /\ files[k].jsonmodel_type = "subject"
    /\ \E k \in 1..Len(files) : files[k].badField = "jsonmodel_type"
    /\ Cardinality(DOMAIN ret.index) = 1

\* C5: a .json file that cannot be read or does not parse is skipped: it
\* adds no entry to the title index and no composite key to the slice.
C5_FailedFilesSkipped ==
    \A f \in FailedFiles :
        /\ f.uri \notin DOMAIN titleIndex
        /\ \A k \in 1..Len(titlesWithURI) :
               extractURI(titlesWithURI[k]) # f.uri

\* C6: when the walk finds no accession record the call returns an error
\* and no map; when it returns no error the map is not empty.
C6_EmptyIsError ==
    pc = "done" =>
        /\ AccessionFiles = {} => (ret.isNil /\ ret.err # "")
        /\ ret.err = "" => (~ret.isNil /\ DOMAIN ret.index # {})

\* C6's case: the call has returned an error over a root that holds files,
\* none of them an accession record in a .json file.
C6_Witness ==
    /\ pc = "done"
    /\ ret.isNil /\ ret.err = "No titles found"
    /\ \E k \in 1..Len(files) : ~files[k].json
    /\ \E k \in 1..Len(files) : files[k].jsonmodel_type = "subject"

----------------------------------------------------------------------------
(* What the claims about the views and the renderer read *)

\* A subject entry whose "ref" is a URI held by the subjects map.
SubjectResolves(item) ==
    item.hasRef /\ item.kind = "string" /\ item.s \in DOMAIN subjects

\* An instance that carries a digital_object whose "ref" is a URI held by
\* the digitalObjects map.
InstanceResolves(item) ==
    /\ item.hasDO /\ item.hasRef /\ item.kind = "string"
    /\ item.s \in DOMAIN digitalObjects

HasFileURI(fv) == fv.FileURI # ""

\* The non-empty file URIs of a digital object, in their order.
NonEmptyFileURIs(o) ==
    LET kept == SelectSeq(o.FileVersions, HasFileURI) IN
    [k \in 1..Len(kept) |-> kept[k].FileURI]

\* The number of entries of a.Subjects that reference subject u.
RefCount(u) ==
    Cardinality({k \in 1..Len(acc.Subjects) :
                    acc.Subjects[k].hasRef /\ FmtS(acc.Subjects[k]) = u})

\* C7: the view's Subjects are the titles of the subject references that
\* resolve in the subjects map, one per reference and in source order; its
\* DigitalObjects are the normalized views of the instances whose
\* digital_object ref resolves in the digitalObjects map, in source order;
\* nothing else is added and the error is nil.
C7_ResolvedReferences ==
    pc = "viewed" =>
        LET rs == SelectSeq(acc.Subjects, SubjectResolves)
            ri == SelectSeq(acc.Instances, InstanceResolves)
        IN  /\ verr = "nil"
            /\ view.Subjects = [k \in 1..Len(rs) |-> subjects[rs[k].s].Title]
            /\ view.DigitalObjects =
                   [k \in 1..Len(ri) |->
                       LET o == digitalObjects[ri[k].s] IN
                       [URI |-> o.URI, Title |-> o.Title,
                        Publish |-> o.Publish,
                        FileURIs |-> NonEmptyFileURIs(o)]]

\* C7's case: a view with two subject titles in source order, and with one
\* digital object kept and one instance skipped.
C7_Witness ==
    /\ pc = "viewed"
    /\ Len(view.Subjects) = 2
    /\ view.Subjects[1] # view.Subjects[2]
    /\ Len(acc.Instances) = 2
    /\ Len(view.DigitalObjects) = 1
    /\ view.DigitalObjects[1].FileURIs = <<"a.pdf", "b.tif">>

\* C8 as stated: after one referenced subject is removed from the map, the
\* subject list is exactly one entry shorter, and the error is nil.
C8_OneFewer ==
    (pc = "viewed" /\ removed # "") =>
        /\ verr = "nil"
        /\ Len(view.Subjects) = Len(prev) - 1

\* C8 as amended: after one referenced subject is removed from the map, the
\* subject list is shorter by the number of entries of a.Subjects that
\* reference it (one fewer when it is referenced once), and the error is nil.
C8_FewerByRefCount ==
    (pc = "viewed" /\ removed # "") =>
        /\ verr = "nil"
        /\ RefCount(removed) >= 1
        /\ Len(view.Subjects) = Len(prev) - RefCount(removed)

\* C8's case: two subjects were listed, one was removed from the map, and
\* the call after lists the other one alone.
C8_Witness ==
    /\ pc = "viewed"
    /\ removed # ""
    /\ Len(prev) = 2
    /\ prev[1] # prev[2]
    /\ Len(view.Subjects) = 1

\* The fragments of nav whose URI is not empty, in the order prev, this, next.
PresentFragments ==
    (IF nav.PrevURI # ""
     THEN Fragment("prev-item", nav.PrevURI, nav.PrevLabel) ELSE <<>>)
    \o (IF nav.ThisURI # ""
        THEN Fragment("this-item", nav.ThisURI, nav.ThisLabel) ELSE <<>>)
    \o (IF nav.NextURI # ""
        THEN Fragment("next-item", nav.NextURI, nav.NextLabel) ELSE <<>>)

\* The pieces of fs with one space between each two.
JoinSingle(fs) ==
    [k \in 1..(IF fs = <<>> THEN 0 ELSE 2 * Len(fs) - 1) |->
        IF k % 2 = 1 THEN fs[(k + 1) \div 2] ELSE Space]

\* C9: String gives the fragments whose URI is not empty, in the order prev,
\* this, next, with exactly one space between each two and no space before
\* or after.
C9_SingleSpaces ==
    pc = "rendered" => rendered = JoinSingle(PresentFragments)

\* C10: DigitalObject.NormalizeView copies URI, Title and Publish, and
\* FileURIs is the sequence of the non-empty file URIs in their order.
C10_NonEmptyFileURIs ==
    pc = "viewed" =>
        /\ doView.URI = dobj.URI
        /\ doView.Title = dobj.Title
        /\ doView.Publish = dobj.Publish
        /\ doView.FileURIs = NonEmptyFileURIs(dobj)
        /\ \A k \in 1..Len(doView.FileURIs) : doView.FileURIs[k] # ""

\* C10's case: three file versions, the middle one without a URI, of which
\* the view keeps the two others in their order.
C10_Witness ==
    /\ pc = "viewed"
    /\ Len(dobj.FileVersions) = 3
    /\ dobj.FileVersions[2].FileURI = ""
    /\ doView.FileURIs = <<"a.pdf", "b.tif">>

----------------------------------------------------------------------------
(* The claims about the links and the visiting order of the title index *)

\* The link fields of entry e that point at a key of m carry the ThisLabel
\* of the entry stored there.
LinksMatch(m, e) ==
    /\ e.PrevURI # <<>> =>
           e.PrevURI \in DOMAIN m /\ e.PrevLabel = m[e.PrevURI].ThisLabel
    /\ e.NextURI # <<>> =>
           e.NextURI \in DOMAIN m /\ e.NextLabel = m[e.NextURI].ThisLabel

\* C12: in the returned index every non-empty PrevURI is a key of the map
\* and PrevLabel is the ThisLabel of the entry under that key, and likewise
\* every non-empty NextURI is a key and NextLabel is the ThisLabel of the
\* entry under it.
C12_LabelsMatchLinked ==
    Returned => \A u \in DOMAIN ret.index : LinksMatch(ret.index, ret.index[u])

\* An index is returned in which an entry has both links, to entries whose
\* labels differ from its own and from each other.
C12_Witness ==
    /\ Returned
    /\ \E u \in DOMAIN ret.index :
           LET e == ret.index[u]
           IN  /\ e.PrevURI # <<>>
               /\ e.NextURI # <<>>
               /\ e.PrevLabel # e.ThisLabel
               /\ e.NextLabel # e.ThisLabel
               /\ e.PrevLabel # e.NextLabel

\* The files fs in increasing order of URI: one fixed visiting order for
\* each set of files.
RECURSIVE ByURI(_)
ByURI(fs) ==
    IF fs = <<>> THEN <<>>
    ELSE LET rest == ByURI(Tail(fs))
             f == Head(fs)
             k == Cardinality({j \in 1..Len(rest) :
                                  StrLess(rest[j].uri, f.uri)})
         IN  SubSeq(rest, 1, k) \o <<f>> \o SubSeq(rest, k + 1, Len(rest))

\* filepath.Walk over the files fs in their order.
RECURSIVE WalkFrom(_, _, _)
WalkFrom(fs, ti, tw) ==
    IF fs = <<>> THEN [titleIndex |-> ti, titlesWithURI |-> tw]
    ELSE LET r == WalkFunc(Head(fs), ti, tw)
         IN  WalkFrom(Tail(fs), r.titleIndex, r.titlesWithURI)

\* The linking loop from 0-based index k on.
RECURSIVE LinkFrom(_, _, _)
LinkFrom(ti, tw, k) ==
    IF k >= Len(tw) THEN ti ELSE LinkFrom(LinkEntry(ti, tw, k), tw, k + 1)

\* MakeAccessionTitleIndex on a root whose files are visited in the order fs.
MakeAccessionTitleIndex(fs) ==
    LET w == WalkFrom(fs, EmptyMap, <<>>)
        e == EmptyError(w.titlesWithURI, w.titleIndex)
    IN  IF e # ""
        THEN [isNil |-> TRUE, index |-> EmptyMap, err |-> e]
        ELSE [isNil |-> FALSE,
              index |-> LinkFrom(w.titleIndex,
                                 SortStrings(w.titlesWithURI), 0),
              err |-> ""]

\* No entry of the index m has a neighbour link.
NoLinks(m) ==
    \A u \in DOMAIN m :
        /\ m[u].PrevURI = <<>> /\ m[u].PrevLabel = <<>>
        /\ m[u].NextURI = <<>> /\ m[u].NextLabel = <<>>

\* C13: whatever the order in which the files under the root were visited,
\* the call returns what it returns when the same files are visited in
\* order of URI (the same keys, and the same ThisLabel, PrevURI, PrevLabel,
\* NextURI and NextLabel in every entry); and while files are still being
\* visited no entry has a neighbour link.
C13_OrderIndependent ==
    /\ pc = "done" => ret = MakeAccessionTitleIndex(ByURI(files))
    /\ pc = "walk" => NoLinks(titleIndex)

\* An index of three entries is returned after a walk that visited the
\* files neither in order of URI nor in the order of the sorted keys.
C13_Witness ==
    /\ Returned
    /\ Cardinality(DOMAIN ret.index) = 3
    /\ files # ByURI(files)
    /\ WalkFrom(files, EmptyMap, <<>>).titlesWithURI # titlesWithURI
    /\ ~NoLinks(ret.index)

----------------------------------------------------------------------------
(* The claims about the loaders *)

\* The record an entry of the directory holds.
RecordOf(e) == [URI |-> e.uri, Title |-> e.title]

\* The directory cannot be read, or one of its entries cannot be read or
\* does not parse.
SomeFailure ==
    \/ ~dirOK
    \/ \E k \in 1..Len(entries) : ~entries[k].readable \/ ~entries[k].parses

\* The returned slice holds the record of every entry, in ReadDir's order.
ListHoldsAll ==
    /\ Len(lret.value) = Len(entries)
    /\ \A k \in 1..Len(entries) : lret.value[k] = RecordOf(entries[k])

\* The returned map holds the record of every entry under its URI, and
\* nothing else.
MapHoldsAll ==
    /\ DOMAIN lret.value = {entries[k].uri : k \in 1..Len(entries)}
    /\ \A k \in 1..Len(entries) :
           lret.value[entries[k].uri] = RecordOf(entries[k])

\* C11: a loader that meets an unreadable directory, an unreadable entry or
\* an entry that does not parse returns an error and a nil result, never the
\* records read before the failure; a loader whose entries all read and
\* parse returns no error and a result holding every record, the maps keyed
\* by URI.
C11_LoadAllOrNothing ==
    pc = "done" /\ loader \in Loaders =>
        IF SomeFailure
        THEN lret.isNil /\ lret.err # "" /\ lret.value = <<>>
        ELSE /\ lret.err = ""
             /\ IF loader = "MakeSubjectList" THEN ListHoldsAll
                ELSE MapHoldsAll

\* A map loader has returned nil and an error for a directory whose third
\* entry fails after two records were stored.
C11_Witness ==
    /\ pc = "done"
    /\ loader = "MakeSubjectMap"
    /\ dirOK
    /\ Len(entries) = 3
    /\ entries[1].readable /\ entries[1].parses
    /\ entries[2].readable /\ entries[2].parses
    /\ entries[3].readable /\ ~entries[3].parses
    /\ DOMAIN loaded = {entries[1].uri, entries[2].uri}
    /\ lret.isNil
    /\ lret.err = "Can't parse"

=============================================================================
